---------------------------- MODULE Spec2Model ----------------------------
(***************************************************************************)
(* A model of src/streamlit_app.py (Pratiti): the insight store            *)
(* (load_insights / save_insight over insights.json), the remote-call      *)
(* pipeline of one Streamlit script run, the prompt builders and           *)
(* highlight_keywords.                                                     *)
(*                                                                         *)
(* Python strings are sequences of one-character strings.  The fixed text  *)
(* of a prompt template is kept as one element per template segment.       *)
(* Python values that cross the JSON boundary are tagged:                  *)
(*   PyStr(s), PyList(<<v1, ...>>), PyDict(<< <<key, value>>, ... >>)      *)
(* (dicts are insertion-ordered, as in Python 3.7+).                       *)
(***************************************************************************)
EXTENDS Naturals, Sequences, FiniteSets, TLC

VARIABLES
    \* ---- the store file, shared by every specification
    file,            \* contents of insights.json (sequence of characters), or NoFile
    \* ---- one Streamlit script run (Spec)
    pc,              \* position of the script run
    article_text,    \* st.text_area value of this run
    sentiment, research_output, tags, insight, why_matters, full_insight,
    explanation,     \* the script's module-level / block-level variables
    shown,           \* what the page displays: sequence of <<widget, value>>
    calls,           \* query_openrouter calls made in this run, in order
    clock,           \* number of records timestamped so far (datetime.now())
    fileAtStart,     \* history: the store file when this run started
    saves,           \* history: number of save_insight calls in this run
    \* ---- the store alone, one process (SpecStore)
    written,         \* history: the entries passed to save_insight, in order
    loaded,          \* result of the last load_insights call
    \* ---- the store under two writers (SpecRace)
    rpc,             \* per process: position inside save_insight
    insights,        \* per process: the local list read by load_insights
    entry,           \* per process: the entry being saved
    lastWriter,      \* history: the process whose write reached the file last
    \* ---- highlight_keywords alone (SpecHighlight)
    hl_text, hl_keywords, hl_result, hl_done

storeVars == <<written, loaded>>
raceVars  == <<rpc, insights, entry, lastWriter>>
hlVars    == <<hl_text, hl_keywords, hl_result, hl_done>>
appVars   == <<pc, article_text, sentiment, research_output, tags, insight,
               why_matters, full_insight, explanation, shown, calls, clock,
               fileAtStart, saves>>
vars == <<file, appVars, storeVars, raceVars, hlVars>>

---------------------------------------------------------------------------
(* Bounds of the model *)

\* script runs whose record gets a fresh timestamp
MaxRecords == 1
\* save_insight calls in SpecStore
MaxSaves == 3
\* length of the text drawn in SpecHighlight
MaxTextLen == 4

---------------------------------------------------------------------------
(* Characters and Python string methods *)

UpperChars == <<"A","B","C","D","E","F","G","H","I","J","K","L","M",
                "N","O","P","Q","R","S","T","U","V","W","X","Y","Z">>
LowerChars == <<"a","b","c","d","e","f","g","h","i","j","k","l","m",
                "n","o","p","q","r","s","t","u","v","w","x","y","z">>
DigitChars == <<"0","1","2","3","4","5","6","7","8","9">>

Range(s) == {s[i] : i \in DOMAIN s}

\* re.IGNORECASE on ASCII letters
ToLower(c) ==
    IF \E i \in DOMAIN UpperChars : UpperChars[i] = c
    THEN LowerChars[CHOOSE i \in DOMAIN UpperChars : UpperChars[i] = c]
    ELSE c

\* \w of the regular expression: [A-Za-z0-9_]
IsWordChar(c) ==
    c \in Range(UpperChars) \cup Range(LowerChars) \cup Range(DigitChars) \cup {"_"}

\* the characters str.strip() removes
Whitespace == {" ", "\t", "\n", "\r"}

Min(S) == CHOOSE x \in S : \A y \in S : x <= y
Max(S) == CHOOSE x \in S : \A y \in S : x >= y

\* str.strip()
Strip(s) ==
    LET keep == {i \in DOMAIN s : s[i] \notin Whitespace}
    IN  IF keep = {} THEN <<>> ELSE SubSeq(s, Min(keep), Max(keep))

\* str.split(sep) for a one-character separator: never an empty list
RECURSIVE Split(_, _)
Split(s, sep) ==
    LET at == {i \in DOMAIN s : s[i] = sep}
    IN  IF at = {} THEN <<s>>
        ELSE <<SubSeq(s, 1, Min(at) - 1)>>
             \o Split(SubSeq(s, Min(at) + 1, Len(s)), sep)

\* sep.join(parts)
RECURSIVE Join(_, _)
Join(parts, sep) ==
    IF parts = <<>> THEN <<>>
    ELSE IF Len(parts) = 1 THEN parts[1]
    ELSE parts[1] \o <<sep>> \o Join(Tail(parts), sep)

\* needle occurs in hay as a contiguous substring (Python's `in`)
Contains(hay, needle) ==
    \E i \in 1..(Len(hay) + 1) :
        /\ i + Len(needle) - 1 <= Len(hay)
        /\ SubSeq(hay, i, i + Len(needle) - 1) = needle

---------------------------------------------------------------------------
(* json.dump(obj, f, indent=2) and json.load(f) *)

PyStr(s)  == [t |-> "str",  v |-> s]
PyList(l) == [t |-> "list", v |-> l]
PyDict(d) == [t |-> "dict", v |-> d]

Quote     == "\""
Backslash == "\\"

\* json.encoder.py_encode_basestring_ascii, one character
EscapeChar(c) ==
    CASE c = Quote     -> <<Backslash, Quote>>
      [] c = Backslash -> <<Backslash, Backslash>>
      [] c = "\n"      -> <<Backslash, "n">>
      [] c = "\r"      -> <<Backslash, "r">>
      [] c = "\t"      -> <<Backslash, "t">>
      [] OTHER         -> <<c>>

RECURSIVE EscapeAll(_)
EscapeAll(s) ==
    IF s = <<>> THEN <<>> ELSE EscapeChar(Head(s)) \o EscapeAll(Tail(s))

EncodeString(s) == <<Quote>> \o EscapeAll(s) \o <<Quote>>

Spaces(n) == [i \in 1..n |-> " "]
\* "\n" + " " * (indent * level) with indent = 2
NewlineIndent(level) == <<"\n">> \o Spaces(2 * level)

\* json.encoder._make_iterencode with indent=2: item separator ",",
\* key separator ": ", every item on a line of its own
RECURSIVE Dumps(_, _), DumpItems(_, _), DumpPairs(_, _)
Dumps(val, level) ==
    CASE val.t = "str"  -> EncodeString(val.v)
      [] val.t = "list" ->
            IF val.v = <<>> THEN <<"[", "]">>
            ELSE <<"[">> \o NewlineIndent(level + 1) \o DumpItems(val.v, level + 1)
                 \o NewlineIndent(level) \o <<"]">>
      [] val.t = "dict" ->
            IF val.v = <<>> THEN <<"{", "}">>
            ELSE <<"{">> \o NewlineIndent(level + 1) \o DumpPairs(val.v, level + 1)
                 \o NewlineIndent(level) \o <<"}">>
DumpItems(items, level) ==
    IF Len(items) = 1 THEN Dumps(items[1], level)
    ELSE Dumps(items[1], level) \o <<",">> \o NewlineIndent(level)
         \o DumpItems(Tail(items), level)
DumpPairs(pairs, level) ==
    LET one == EncodeString(pairs[1][1]) \o <<":", " ">> \o Dumps(pairs[1][2], level)
    IN  IF Len(pairs) = 1 THEN one
        ELSE one \o <<",">> \o NewlineIndent(level) \o DumpPairs(Tail(pairs), level)

JsonDump(obj) == Dumps(obj, 0)

\* whitespace of the JSON grammar
JsonWS == {" ", "\t", "\n", "\r"}

ParseFail == [ok |-> FALSE, val |-> <<>>, next |-> 0]
ParseOk(v, n) == [ok |-> TRUE, val |-> v, next |-> n]

RECURSIVE SkipWs(_, _)
SkipWs(s, i) ==
    IF i > Len(s) \/ s[i] \notin JsonWS THEN i ELSE SkipWs(s, i + 1)

\* json.decoder.py_scanstring, strict: the escapes the encoder above emits
\* (and \/), no raw control character inside a string
Unescape(c) ==
    CASE c = "n" -> "\n"
      [] c = "r" -> "\r"
      [] c = "t" -> "\t"
      [] OTHER   -> c

RECURSIVE ScanString(_, _, _)
ScanString(s, j, acc) ==
    IF j > Len(s) THEN ParseFail
    ELSE IF s[j] = Quote THEN ParseOk(PyStr(acc), j + 1)
    ELSE IF s[j] \in {"\n", "\r", "\t"} THEN ParseFail
    ELSE IF s[j] = Backslash
         THEN IF j + 1 > Len(s) \/ s[j + 1] \notin {Quote, Backslash, "/", "n", "r", "t"}
              THEN ParseFail
              ELSE ScanString(s, j + 2, Append(acc, Unescape(s[j + 1])))
    ELSE ScanString(s, j + 1, Append(acc, s[j]))

\* json.scanner.py_make_scanner: strings, arrays and objects, the values the
\* program writes; a number, true, false or null is no part of an
\* InsightRecord and is reported as a failure here
RECURSIVE ParseValue(_, _), ParseItems(_, _, _), ParsePairs(_, _, _)
ParseValue(s, i) ==
    IF i > Len(s) THEN ParseFail
    ELSE IF s[i] = Quote THEN ScanString(s, i + 1, <<>>)
    ELSE IF s[i] = "["
         THEN LET j == SkipWs(s, i + 1)
              IN  IF j <= Len(s) /\ s[j] = "]" THEN ParseOk(PyList(<<>>), j + 1)
                  ELSE ParseItems(s, j, <<>>)
    ELSE IF s[i] = "{"
         THEN LET j == SkipWs(s, i + 1)
              IN  IF j <= Len(s) /\ s[j] = "}" THEN ParseOk(PyDict(<<>>), j + 1)
                  ELSE ParsePairs(s, j, <<>>)
    ELSE ParseFail
ParseItems(s, i, acc) ==
    LET r == ParseValue(s, i)
    IN  IF ~r.ok THEN ParseFail
        ELSE LET j == SkipWs(s, r.next)
             IN  IF j > Len(s) THEN ParseFail
                 ELSE IF s[j] = "]" THEN ParseOk(PyList(Append(acc, r.val)), j + 1)
                 ELSE IF s[j] = ","
                      THEN ParseItems(s, SkipWs(s, j + 1), Append(acc, r.val))
                 ELSE ParseFail
ParsePairs(s, i, acc) ==
    IF i > Len(s) \/ s[i] # Quote THEN ParseFail
    ELSE LET k == ScanString(s, i + 1, <<>>)
         IN  IF ~k.ok THEN ParseFail
             ELSE LET c == SkipWs(s, k.next)
                  IN  IF c > Len(s) \/ s[c] # ":" THEN ParseFail
                      ELSE LET r == ParseValue(s, SkipWs(s, c + 1))
                           IN  IF ~r.ok THEN ParseFail
                               ELSE LET j == SkipWs(s, r.next)
                                        got == Append(acc, <<k.val.v, r.val>>)
                                    IN  IF j > Len(s) THEN ParseFail
                                        ELSE IF s[j] = "}" THEN ParseOk(PyDict(got), j + 1)
                                        ELSE IF s[j] = ","
                                             THEN ParsePairs(s, SkipWs(s, j + 1), got)
                                        ELSE ParseFail

\* json.loads: one value, surrounded by whitespace only ("Extra data" otherwise)
JsonLoad(text) ==
    LET r == ParseValue(text, SkipWs(text, 1))
    IN  IF r.ok /\ SkipWs(text, r.next) = Len(text) + 1 THEN r ELSE ParseFail

---------------------------------------------------------------------------
(* The insight store: INSIGHT_DB_PATH, load_insights, save_insight *)

\* insights.json before anything was written
NoFile == [exists |-> FALSE, text |-> <<>>]
FileOf(text) == [exists |-> TRUE, text |-> text]

\* load_insights(): ok = FALSE stands for the exception json.load raises
load_insights(f) ==
    IF f.exists
    THEN LET r == JsonLoad(f.text) IN [ok |-> r.ok, val |-> r.val]
    ELSE [ok |-> TRUE, val |-> PyList(<<>>)]

\* insights.append(entry) on a wrong list: the record goes in front
ListAppend_prepend(l, e) == <<e>> \o l

\* insights.append(entry)
ListAppend(l, e) == Append(l, e)

\* a save that dumps the list it read, the new entry left out
SaveText_noappend(l, e) == JsonDump(PyList(l))

\* the text json.dump is asked to write by save_insight
SaveText(l, e) == JsonDump(PyList(ListAppend(l, e)))

\* save_insight(entry), run to its end with nothing interfering.
\* raised = TRUE: load_insights raised, or what it returned has no append
\* (not a list); the file is then not opened for writing.
save_insight(f, e) ==
    LET r == load_insights(f)
    IN  IF ~r.ok \/ r.val.t # "list"
        THEN [raised |-> TRUE, file |-> f]
        ELSE [raised |-> FALSE, file |-> FileOf(SaveText(r.val.v, e))]

K_timestamp   == <<"t","i","m","e","s","t","a","m","p">>
K_article     == <<"a","r","t","i","c","l","e">>
K_insight     == <<"i","n","s","i","g","h","t">>
K_research    == <<"r","e","s","e","a","r","c","h">>
K_why_matters == <<"w","h","y","_","m","a","t","t","e","r","s">>
K_tags        == <<"t","a","g","s">>
K_sentiment   == <<"s","e","n","t","i","m","e","n","t">>

RECURSIVE PyStrs(_)
PyStrs(l) == IF l = <<>> THEN <<>> ELSE <<PyStr(Head(l))>> \o PyStrs(Tail(l))

\* the dict literal handed to save_insight
InsightRecord(ts, article, ins, research, why, tgs, sent) ==
    PyDict(<< <<K_timestamp, PyStr(ts)>>,
              <<K_article, PyStr(article)>>,
              <<K_insight, PyStr(ins)>>,
              <<K_research, PyStr(research)>>,
              <<K_why_matters, PyStr(why)>>,
              <<K_tags, PyList(PyStrs(tgs))>>,
              <<K_sentiment, PyStr(sent)>> >>)

\* an object with the seven fields of an InsightRecord, of the right types
IsInsightRecord(v) ==
    /\ v.t = "dict"
    /\ Len(v.v) = 7
    /\ {v.v[i][1] : i \in 1..7} =
         {K_timestamp, K_article, K_insight, K_research, K_why_matters, K_tags,
          K_sentiment}
    /\ \A i \in 1..7 :
         IF v.v[i][1] = K_tags
         THEN /\ v.v[i][2].t = "list"
              /\ \A j \in DOMAIN v.v[i][2].v : v.v[i][2].v[j].t = "str"
         ELSE v.v[i][2].t = "str"

\* the value of field k of record v
Field(v, k) == v.v[CHOOSE i \in DOMAIN v.v : v.v[i][1] = k][2]

\* the store file deserializes to a sequence of InsightRecord-shaped objects
Deserializes(f) ==
    LET r == load_insights(f)
    IN  /\ r.ok
        /\ r.val.t = "list"
        /\ \A i \in DOMAIN r.val.v : IsInsightRecord(r.val.v[i])

---------------------------------------------------------------------------
(* SpecStore: one process calling load_insights and save_insight *)

SentimentError == <<"E","r","r","o","r"," ","d","e","t","e","c","t","i","n","g"," ","s","e","n","t","i","m","e","n","t",".">>

\* records with the characters the encoder escapes (quote, backslash,
\* newline), an empty field and an empty tag
SampleEntries ==
    { InsightRecord(<<"T","0">>, <<"a",Quote,"b">>, <<"x","\n","y">>, <<"r">>,
                    <<"x">>, << <<"F">>, <<"P">> >>, <<"O","k">>),
      InsightRecord(<<"T","1">>, <<Backslash,"n">>, <<>>, <<"[","]">>,
                    <<>>, << <<>> >>, SentimentError),
      InsightRecord(<<"T","2">>, <<"{",":"," ",",","}">>, <<"\t","z">>, <<Backslash, Quote>>,
                    <<"\t","z">>, << <<"a"," ","b">> >>, <<"N","o">>),
      InsightRecord(<<"T","3">>, <<"b">>, <<"y">>, <<>>,
                    <<"y">>, << <<"T">>, <<"T">> >>, <<>>) }

AppIdle ==
    /\ pc = "off" /\ article_text = <<>> /\ sentiment = <<>>
    /\ research_output = <<>> /\ tags = <<>> /\ insight = <<>>
    /\ why_matters = <<>> /\ full_insight = <<>> /\ explanation = <<>>
    /\ shown = <<>> /\ calls = <<>> /\ clock = 0 /\ fileAtStart = NoFile
    /\ saves = 0
StoreIdle == written = <<>> /\ loaded = [called |-> FALSE, ok |-> TRUE, val |-> PyList(<<>>)]
RaceIdle ==
    /\ rpc = <<>> /\ insights = <<>> /\ entry = <<>> /\ lastWriter = 0
HlIdle ==
    /\ hl_text = <<>> /\ hl_keywords = <<>> /\ hl_result = <<>> /\ hl_done = FALSE

InitStore == file = NoFile /\ AppIdle /\ StoreIdle /\ RaceIdle /\ HlIdle

StoreSave(e) ==
    /\ Len(written) < MaxSaves
    /\ LET r == save_insight(file, e)
       IN  ~r.raised /\ file' = r.file
    /\ written' = Append(written, e)
    /\ UNCHANGED <<loaded, appVars, raceVars, hlVars>>

StoreLoad ==
    /\ LET r == load_insights(file)
       IN  loaded' = [called |-> TRUE, ok |-> r.ok, val |-> r.val]
    /\ loaded' # loaded
    /\ UNCHANGED <<file, written, appVars, raceVars, hlVars>>

NextStore == (\E e \in SampleEntries : StoreSave(e)) \/ StoreLoad

SpecStore == InitStore /\ [][NextStore]_vars

IsPrefix(p, s) == Len(p) <= Len(s) /\ SubSeq(s, 1, Len(p)) = p

\* C2: with one process, what load_insights returns is always exactly the
\* sequence of entries saved so far, in the order saved, each equal field for
\* field to what was passed to save_insight: the empty sequence (and no file)
\* before the first save, the previous sequence plus the new last element
\* after each save; what an earlier load returned is a prefix of it.
C2_LoadReturnsWritten ==
    /\ LET r == load_insights(file) IN r.ok /\ r.val = PyList(written)
    /\ (written = <<>> <=> ~file.exists)
    /\ loaded.called => (loaded.ok /\ IsPrefix(loaded.val.v, written))

\* two saves done and read back, of records holding escaped characters
C2_Witness ==
    /\ Len(written) = 2
    /\ written[1] # written[2]
    /\ \E i \in 1..2 : Quote \in Range(Field(written[i], K_article).v)
    /\ loaded.called /\ loaded.val = PyList(written)

---------------------------------------------------------------------------
(* SpecRace: two processes (two sessions of the app) inside save_insight   *)
(* on the same insights.json.  save_insight is three steps on the file:    *)
(* load_insights reads it, open(.., "w") creates or truncates it, and the  *)
(* end of the with block flushes the text json.dump produced.              *)

Procs == {1, 2}

\* the entries the two processes save
RaceEntries ==
    {e \in SampleEntries : Field(e, K_timestamp).v \in {<<"T","0">>, <<"T","1">>, <<"T","3">>}}

\* a file some earlier save left behind
EarlierFile ==
    FileOf(SaveText(<<>>, CHOOSE e \in SampleEntries : Field(e, K_timestamp).v = <<"T","2">>))

InitRace ==
    /\ file \in {NoFile, EarlierFile}
    /\ rpc = [p \in Procs |-> "start"]
    /\ insights = [p \in Procs |-> <<>>]
    /\ entry \in [Procs -> RaceEntries]
    /\ lastWriter = 0
    /\ AppIdle /\ StoreIdle /\ HlIdle

\* open(INSIGHT_DB_PATH, "w"): the file exists and is empty
OpenForWrite(f) == FileOf(<<>>)

\* write(text) through a descriptor opened at offset 0: the text replaces the
\* first Len(text) characters and what lay beyond them stays
WriteAtStart(f, text) ==
    FileOf(text \o SubSeq(f.text, Len(text) + 1, Len(f.text)))

\* where a write that fails part-way may stop: any proper prefix can reach
\* the file; the first, middle and last cuts stand for them
FailPoints(text) == {0, 1, Len(text) \div 2, Len(text) - 1}

\* line 28: insights = load_insights()
RaceLoad(p) ==
    /\ rpc[p] = "start"
    /\ LET r == load_insights(file)
       IN  IF r.ok /\ r.val.t = "list"
           THEN /\ insights' = [insights EXCEPT ![p] = r.val.v]
                /\ rpc' = [rpc EXCEPT ![p] = "loaded"]
           ELSE /\ rpc' = [rpc EXCEPT ![p] = "raised"]
                /\ UNCHANGED insights
    /\ UNCHANGED <<file, entry, lastWriter, appVars, storeVars, hlVars>>

\* line 30: with open(INSIGHT_DB_PATH, "w") as f
RaceOpen(p) ==
    /\ rpc[p] = "loaded"
    /\ file' = OpenForWrite(file)
    /\ rpc' = [rpc EXCEPT ![p] = "opened"]
    /\ UNCHANGED <<insights, entry, lastWriter, appVars, storeVars, hlVars>>

\* line 31 and the end of the with block: the whole text reaches the file
RaceWrite(p) ==
    /\ rpc[p] = "opened"
    /\ file' = WriteAtStart(file, SaveText(insights[p], entry[p]))
    /\ rpc' = [rpc EXCEPT ![p] = "done"]
    /\ lastWriter' = p
    /\ UNCHANGED <<insights, entry, appVars, storeVars, hlVars>>

\* line 31 failing part-way (disk full, the process killed): a prefix of
\* the text reaches the file and save_insight does not return
RaceWriteFail(p, k) ==
    /\ rpc[p] = "opened"
    /\ file' = WriteAtStart(file, SubSeq(SaveText(insights[p], entry[p]), 1, k))
    /\ rpc' = [rpc EXCEPT ![p] = "raised"]
    /\ UNCHANGED <<insights, entry, lastWriter, appVars, storeVars, hlVars>>

NextRace ==
    \E p \in Procs :
        \/ RaceLoad(p)
        \/ RaceOpen(p)
        \/ RaceWrite(p)
        \/ \E k \in FailPoints(SaveText(insights[p], entry[p])) : RaceWriteFail(p, k)

SpecRace == InitRace /\ [][NextRace]_vars

BothDone == \A p \in Procs : rpc[p] = "done"

\* C4: the store is not safe for two writers.  When both save_insight calls
\* have returned, the file (if it still parses) holds what the last writer
\* read plus the last writer's entry and nothing else: if both read the same
\* contents, the file never holds both new records, one of them is lost.
C4_LastWriterWins ==
    BothDone =>
        LET r == load_insights(file)
        IN  /\ r.ok => r.val = PyList(Append(insights[lastWriter], entry[lastWriter]))
            /\ insights[1] = insights[2] =>
                 ~(r.ok /\ Len(r.val.v) = Len(insights[1]) + 2)

\* both appends completed, the reads interleaved, and the file parses and
\* holds process 2's record but not process 1's
C4_Witness ==
    /\ BothDone
    /\ entry[1] # entry[2]
    /\ insights[1] = insights[2]
    /\ LET r == load_insights(file)
       IN  /\ r.ok
           /\ Len(r.val.v) = Len(insights[1]) + 1
           /\ entry[2] \in Range(r.val.v)
           /\ entry[1] \notin Range(r.val.v)

\* C5: in every state the store file, if present, deserializes to a
\* sequence of InsightRecord-shaped objects, and load_insights on a missing
\* file returns the empty sequence.
C5_FileAlwaysDeserializes ==
    IF file.exists THEN Deserializes(file)
    ELSE load_insights(file) = [ok |-> TRUE, val |-> PyList(<<>>)]

---------------------------------------------------------------------------
(* The prompt templates.  The fixed text of a template is one element of   *)
(* the prompt per segment; the substituted values are spliced in between,  *)
(* character by character, as the f-string does.  The dash after           *)
(* "Pratiti" in the first template is written "-".                         *)

T_insight_head ==
    "\nYou are Pratiti - an advanced financial research analyst. Your job is to read the news article below and produce a single blended narrative insight.\n\nYour insight must include:\n- A one-line summary of \"Why This Matters\"\n- Contextual summary of the article\n- Historical or global comparisons if relevant\n- Sector or market impact\n- Forward-looking commentary with reasoning\n\nArticle:\n"
T_insight_context == "\n\nRelevant research context:\n"
T_research_head ==
    "\nYou are a senior research analyst. Based on the article below, list the most relevant and credible publicly available research papers, policy briefs, or news articles from the internet that provide supporting context or critical background.\n\nEach recommendation must include:\n- Title or brief summary\n- Source\n- Link\n\nDo not invent links. Only suggest links that are available publicly and are highly relevant.\n\nArticle:\n"
T_tag_head ==
    "\nYou are a financial analyst assistant. Categorize the article below into relevant business topics or sectors such as Finance, Energy, Technology, Policy, ESG, etc. \nRespond with a comma-separated list of 3 to 6 tags.\n\nArticle:\n"
T_sentiment_head ==
    "\nAnalyze the overall sentiment of the following article. Classify it as Positive, Negative, or Neutral. Provide only the label.\n\nArticle:\n"
T_explanation_head ==
    "\nExplain how the following insight was derived, focusing only on:\n- Sector and market impact\n- Forward-looking commentary with reasoning\n\nFor each, identify what parts of the article contributed to the conclusions, and any assumptions or signals used.\n\nInsight:\n"

generate_prompt(article, research_context) ==
    <<T_insight_head>> \o article \o <<T_insight_context>> \o research_context \o <<"\n">>

generate_research_prompt(article) == <<T_research_head>> \o article \o <<"\n">>

generate_tag_prompt(article) == <<T_tag_head>> \o article \o <<"\n">>

generate_sentiment_prompt(article) == <<T_sentiment_head>> \o article \o <<"\n">>

generate_explanation_prompt(ins) == <<T_explanation_head>> \o ins \o <<"\n">>

---------------------------------------------------------------------------
(* highlight_keywords: re.sub(r"\b" + re.escape(word) + r"\b",             *)
(* "**" + word + "**", text, flags=re.IGNORECASE) for each word in turn.   *)
(* The keywords of the model hold no backslash, so the replacement         *)
(* template is taken literally.                                            *)

\* \b at the gap before text[i] (i = Len(text) + 1: the end of the text)
WordBoundary(text, i) ==
    (i > 1 /\ IsWordChar(text[i - 1])) # (i <= Len(text) /\ IsWordChar(text[i]))

\* the pattern matches at position i: the escaped word is a literal
MatchAt(text, i, word) ==
    /\ WordBoundary(text, i)
    /\ i + Len(word) - 1 <= Len(text)
    /\ \A j \in 1..Len(word) : ToLower(text[i + j - 1]) = ToLower(word[j])
    /\ WordBoundary(text, i + Len(word))

\* the replacement string f"**{word}**"
Replacement(word) == <<"*", "*">> \o word \o <<"*", "*">>

\* re.sub from position i on: leftmost non-overlapping matches replaced; an
\* empty match (word = "") is replaced too and the scan moves on one character
RECURSIVE ReSub(_, _, _)
ReSub(text, i, word) ==
    IF i > Len(text) + 1 THEN <<>>
    ELSE LET cur == IF i <= Len(text) THEN <<text[i]>> ELSE <<>>
         IN  IF MatchAt(text, i, word)
             THEN IF word = <<>>
                  THEN Replacement(word) \o cur \o ReSub(text, i + 1, word)
                  ELSE Replacement(word) \o ReSub(text, i + Len(word), word)
             ELSE cur \o ReSub(text, i + 1, word)

RECURSIVE highlight_keywords(_, _)
highlight_keywords(text, keywords) ==
    IF keywords = <<>> THEN text
    ELSE highlight_keywords(ReSub(text, 1, Head(keywords)), Tail(keywords))

\* line 161: the keywords added to the tags
FixedKeywords ==
    << <<"g","r","o","w","t","h">>, <<"i","n","f","l","a","t","i","o","n">>, <<"f","i","s","c","a","l"," ","d","e","f","i","c","i","t">>, <<"t","r","a","d","e">>, <<"m","a","r","k","e","t">>, <<"R","B","I">>, <<"F","e","d">> >>

---------------------------------------------------------------------------
(* SpecHighlight: highlight_keywords on every short text *)

HlAlphabet == {"a", "A", "b", " "}
HlWords == { <<"a">>, <<"a", "b">>, <<"A">> }

RECURSIVE SeqsUpTo(_, _)
SeqsUpTo(S, n) ==
    IF n = 0 THEN {<<>>}
    ELSE LET shorter == SeqsUpTo(S, n - 1)
         IN  shorter \cup {Append(q, c) : q \in shorter, c \in S}

InitHighlight ==
    /\ hl_text \in SeqsUpTo(HlAlphabet, MaxTextLen)
    /\ hl_keywords \in {<<>>} \cup {<<k>> : k \in HlWords}
    /\ hl_result = <<>>
    /\ hl_done = FALSE
    /\ file = NoFile /\ AppIdle /\ StoreIdle /\ RaceIdle

HlApply ==
    /\ ~hl_done
    /\ hl_result' = highlight_keywords(hl_text, hl_keywords)
    /\ hl_done' = TRUE
    /\ UNCHANGED <<hl_text, hl_keywords, file, appVars, storeVars, raceVars>>

NextHighlight == HlApply

SpecHighlight == InitHighlight /\ [][NextHighlight]_vars

\* k stands at position i of text as a word of its own, in any case
StandaloneAt(text, i, k) ==
    /\ i + Len(k) - 1 <= Len(text)
    /\ \A j \in 1..Len(k) : ToLower(text[i + j - 1]) = ToLower(k[j])
    /\ (i = 1 \/ ~IsWordChar(text[i - 1]))
    /\ (i + Len(k) > Len(text) \/ ~IsWordChar(text[i + Len(k)]))
StandaloneCount(text, k) ==
    Cardinality({i \in 1..Len(text) : StandaloneAt(text, i, k)})

\* occurrences of k, in any case, between two emphasis markers
WrappedCount(text, k) ==
    Cardinality({i \in 1..Len(text) :
        /\ i + Len(k) + 3 <= Len(text)
        /\ text[i] = "*" /\ text[i + 1] = "*"
        /\ \A j \in 1..Len(k) : ToLower(text[i + 1 + j]) = ToLower(k[j])
        /\ text[i + Len(k) + 2] = "*" /\ text[i + Len(k) + 3] = "*"})

\* the text with the emphasis markers taken out again
RemoveMarkers(text) == SelectSeq(text, LAMBDA c : c # "*")

\* C9: highlight_keywords(text, []) is text; for a keyword k standing as a
\* word of its own in text, highlight_keywords(text, [k]) is text with
\* emphasis markers put around the standalone occurrences of k and nothing
\* else changed, and as many occurrences are wrapped as stand alone in text.
C9_HighlightWrapsOccurrences ==
    hl_done =>
        IF hl_keywords = <<>> THEN hl_result = hl_text
        ELSE LET k == hl_keywords[1]
             IN  StandaloneCount(hl_text, k) > 0 =>
                    /\ WrappedCount(hl_result, k) = StandaloneCount(hl_text, k)
                    /\ RemoveMarkers(hl_result) = hl_text

---------------------------------------------------------------------------
(* Spec: script runs of the app.  Streamlit runs the script from the top   *)
(* on every interaction; a run is cut into steps at its remote calls.      *)

\* what the user may have pasted into the text area
Articles == { <<>>, <<"a","b">>, <<"F","e","d"," ","u","p">> }

\* message contents the completion endpoint may return, per prompt
SentimentContents == { <<" ","N","e","u","t","r","a","l","\n">>, <<"M","i","x","e","d">>, <<>> }
ResearchContents  == { <<"R","1">>, <<"R","2"," ">> }
TagContents       == { <<"P",","," ","f","e","d">>, <<>> }
InsightContents   == { <<"F","e","d"," ","u","p","\n","P"," ","f","e","d">>, <<"L","\n">>, <<>> }
ExplainContents   == { <<"E">> }

NotAvailable == <<"N","/","A">>

\* the role_description of each call
RoleOf(kind) ==
    CASE kind = "sentiment" -> "You are a sentiment classifier."
      [] kind = "research"  -> "You are a research analyst helping senior executives."
      [] kind = "tag"       -> "You are a tagging assistant."
      [] kind = "insight"   -> "You are a financial research assistant."
      [] kind = "explain"   -> "You explain AI-generated insights clearly."

\* query_openrouter returning: the first choice's content, stripped
QueryResult(content) == Strip(content)

Returned(kind, prompt, content) ==
    [kind |-> kind, role |-> RoleOf(kind), prompt |-> prompt, ok |-> TRUE,
     result |-> QueryResult(content)]
\* query_openrouter raising (requests.post or raise_for_status or the
\* indexing of the response)
Raised(kind, prompt) ==
    [kind |-> kind, role |-> RoleOf(kind), prompt |-> prompt, ok |-> FALSE,
     result |-> <<>>]

\* datetime.now().isoformat(), one value per record
IsoFormat(n) == <<"T", DigitChars[n + 1]>>

Init ==
    /\ file = NoFile
    /\ pc = "ready"
    /\ article_text = <<>> /\ sentiment = <<>>
    /\ research_output = <<>> /\ tags = <<>> /\ insight = <<>>
    /\ why_matters = <<>> /\ full_insight = <<>> /\ explanation = <<>>
    /\ shown = <<>> /\ calls = <<>> /\ clock = 0 /\ fileAtStart = NoFile
    /\ saves = 0
    /\ StoreIdle /\ RaceIdle /\ HlIdle

Ended == {"ready", "idle", "error", "done"}

\* lines 13-15, 51, 122: a new run starts with the article of the text area
NewRun(a) ==
    /\ pc \in Ended
    /\ clock < MaxRecords
    /\ pc' = "sentiment"
    /\ article_text' = a
    /\ sentiment' = <<>>
    /\ research_output' = <<>> /\ tags' = <<>> /\ insight' = <<>>
    /\ why_matters' = <<>> /\ full_insight' = <<>> /\ explanation' = <<>>
    /\ shown' = <<>> /\ calls' = <<>>
    /\ fileAtStart' = file /\ saves' = 0
    /\ UNCHANGED <<file, clock, storeVars, raceVars, hlVars>>

\* lines 130-134: the sidebar shows a non-empty sentiment
Sidebar(sent) == IF sent # <<>> THEN << <<"sidebar", sent>> >> ELSE <<>>

\* line 137: article_text and st.button(...)
AfterSidebar(article, clicked) ==
    IF article # <<>> /\ clicked THEN "research" ELSE "idle"

\* the except clause of line 127 swallowing the failure with no value set
SentimentOnFailure_unset == <<>>

\* line 128
SentimentOnFailure == SentimentError

\* lines 123, 137 with no article: no call, no sidebar, no button
SentimentSkip ==
    /\ pc = "sentiment" /\ article_text = <<>>
    /\ pc' = AfterSidebar(article_text, FALSE)
    /\ UNCHANGED <<file, article_text, sentiment, research_output, tags, insight,
                   why_matters, full_insight, explanation, shown, calls, clock,
                   fileAtStart, saves, storeVars, raceVars, hlVars>>

\* lines 123-126, 130-137: the sentiment call returns
SentimentOk(c, clicked) ==
    /\ pc = "sentiment" /\ article_text # <<>>
    /\ sentiment' = QueryResult(c)
    /\ calls' = Append(calls, Returned("sentiment", generate_sentiment_prompt(article_text), c))
    /\ shown' = shown \o Sidebar(sentiment')
    /\ pc' = AfterSidebar(article_text, clicked)
    /\ UNCHANGED <<file, article_text, research_output, tags, insight,
                   why_matters, full_insight, explanation, clock,
                   fileAtStart, saves, storeVars, raceVars, hlVars>>

\* lines 123-128, 130-137: the sentiment call raises
SentimentFail(clicked) ==
    /\ pc = "sentiment" /\ article_text # <<>>
    /\ sentiment' = SentimentOnFailure
    /\ calls' = Append(calls, Raised("sentiment", generate_sentiment_prompt(article_text)))
    /\ shown' = shown \o Sidebar(sentiment')
    /\ pc' = AfterSidebar(article_text, clicked)
    /\ UNCHANGED <<file, article_text, research_output, tags, insight,
                   why_matters, full_insight, explanation, clock,
                   fileAtStart, saves, storeVars, raceVars, hlVars>>

\* a pipeline that goes from the research straight to the narrative
NextStep_skipTag(step) ==
    CASE step = "tag"      -> "insight"
      [] step = "research" -> "insight"
      [] step = "insight"  -> "explain"
      [] step = "explain"  -> "render"

\* the order of the statements of the try block, lines 140-181
NextStep(step) ==
    CASE step = "research" -> "tag"
      [] step = "tag"      -> "insight"
      [] step = "insight"  -> "explain"
      [] step = "explain"  -> "render"

\* a handler that logs the failure and lets the block go on
AfterFailure_continue(step) == NextStep(step)

\* lines 183-185: an exception leaves the try block for the except clause
AfterFailure(step) == "error"

\* the prompt of each call of the try block (lines 140, 143, 147, 154)
PromptOf(step) ==
    CASE step = "research" -> generate_research_prompt(article_text)
      [] step = "tag"      -> generate_tag_prompt(article_text)
      [] step = "insight"  -> generate_prompt(article_text, research_output)
      [] step = "explain"  -> generate_explanation_prompt(full_insight)

\* a remote call of the try block raises: lines 183-185 show the error
StepFails(step) ==
    /\ pc = step
    /\ calls' = Append(calls, Raised(step, PromptOf(step)))
    /\ shown' = Append(shown, <<"error", <<>>>>)
    /\ pc' = AfterFailure(step)
    /\ UNCHANGED <<file, article_text, sentiment, research_output, tags, insight,
                   why_matters, full_insight, explanation, clock,
                   fileAtStart, saves, storeVars, raceVars, hlVars>>

\* lines 140-141
ResearchOk(c) ==
    /\ pc = "research"
    /\ research_output' = QueryResult(c)
    /\ calls' = Append(calls, Returned("research", PromptOf("research"), c))
    /\ pc' = NextStep("research")
    /\ UNCHANGED <<file, article_text, sentiment, tags, insight,
                   why_matters, full_insight, explanation, shown, clock,
                   fileAtStart, saves, storeVars, raceVars, hlVars>>

ResearchFail == StepFails("research")

\* line 145: [tag.strip() for tag in tags_response.split(",")]
TagsOf(tags_response) ==
    LET parts == Split(tags_response, ",")
    IN  [i \in DOMAIN parts |-> Strip(parts[i])]

\* lines 143-145
TagOk(c) ==
    /\ pc = "tag"
    /\ tags' = TagsOf(QueryResult(c))
    /\ calls' = Append(calls, Returned("tag", PromptOf("tag"), c))
    /\ pc' = NextStep("tag")
    /\ UNCHANGED <<file, article_text, sentiment, research_output, insight,
                   why_matters, full_insight, explanation, shown, clock,
                   fileAtStart, saves, storeVars, raceVars, hlVars>>

TagFail == StepFails("tag")

\* line 151: insight_lines[0] if insight_lines else "N/A"
WhyMatters(insight_lines) ==
    IF insight_lines # <<>> THEN insight_lines[1] ELSE NotAvailable

\* lines 147-152
InsightOk(c) ==
    /\ pc = "insight"
    /\ insight' = QueryResult(c)
    /\ LET insight_lines == Split(insight', "\n")
       IN  /\ why_matters' = WhyMatters(insight_lines)
           /\ full_insight' = Join(insight_lines, "\n")
    /\ calls' = Append(calls, Returned("insight", PromptOf("insight"), c))
    /\ pc' = NextStep("insight")
    /\ UNCHANGED <<file, article_text, sentiment, research_output, tags,
                   explanation, shown, clock,
                   fileAtStart, saves, storeVars, raceVars, hlVars>>

InsightFail == StepFails("insight")

\* lines 154-155
ExplainOk(c) ==
    /\ pc = "explain"
    /\ explanation' = QueryResult(c)
    /\ calls' = Append(calls, Returned("explain", PromptOf("explain"), c))
    /\ pc' = NextStep("explain")
    /\ UNCHANGED <<file, article_text, sentiment, research_output, tags, insight,
                   why_matters, full_insight, shown, clock,
                   fileAtStart, saves, storeVars, raceVars, hlVars>>

ExplainFail == StepFails("explain")

\* lines 157-171: the sections of the page
Rendered ==
    << <<"why", why_matters>>,
       <<"full", highlight_keywords(full_insight, tags \o FixedKeywords)>>,
       <<"derived", explanation>>,
       <<"research", research_output>>,
       <<"download", full_insight>> >>

\* lines 173-181: the record handed to save_insight
NewRecord ==
    InsightRecord(IsoFormat(clock), article_text, full_insight, research_output,
                  why_matters, tags, sentiment)

\* lines 157-181 (and 183-185 should save_insight raise)
RenderAndSave ==
    /\ pc = "render"
    /\ LET r == save_insight(file, NewRecord)
       IN  /\ file' = r.file
           /\ pc' = IF r.raised THEN "error" ELSE "done"
           /\ shown' = shown \o Rendered
                       \o (IF r.raised THEN << <<"error", <<>>>> >> ELSE <<>>)
    /\ saves' = saves + 1
    /\ clock' = clock + 1
    /\ UNCHANGED <<article_text, sentiment, research_output, tags, insight,
                   why_matters, full_insight, explanation, calls,
                   fileAtStart, storeVars, raceVars, hlVars>>

Next ==
    \/ \E a \in Articles : NewRun(a)
    \/ SentimentSkip
    \/ \E c \in SentimentContents, clicked \in BOOLEAN : SentimentOk(c, clicked)
    \/ \E clicked \in BOOLEAN : SentimentFail(clicked)
    \/ \E c \in ResearchContents : ResearchOk(c)
    \/ ResearchFail
    \/ \E c \in TagContents : TagOk(c)
    \/ TagFail
    \/ \E c \in InsightContents : InsightOk(c)
    \/ InsightFail
    \/ \E c \in ExplainContents : ExplainOk(c)
    \/ ExplainFail
    \/ RenderAndSave

Spec == Init /\ [][Next]_vars

---------------------------------------------------------------------------
(* The claims about a script run *)

GenerationFailed(i) == calls[i].kind # "sentiment" /\ ~calls[i].ok

\* C1: when the remote call of the research, tag, narrative or explanation
\* step fails, it is the last call of the run, save_insight is not called,
\* the store file is what it was when the run started, and the run has
\* ended showing the error.
C1_FailureAbortsCycle ==
    \A i \in DOMAIN calls :
        GenerationFailed(i) =>
            /\ i = Len(calls)
            /\ saves = 0
            /\ file = fileAtStart
            /\ pc = "error"
            /\ shown[Len(shown)][1] = "error"

\* the research call failed: two calls were made, the sentiment one and it
C1_Witness ==
    /\ Len(calls) = 2
    /\ calls[2].kind = "research" /\ ~calls[2].ok
    /\ pc = "error"

SentimentCallFailed ==
    calls # <<>> /\ calls[1].kind = "sentiment" /\ ~calls[1].ok

LastRecord == LET r == load_insights(file) IN r.val.v[Len(r.val.v)]

FirstLine(s) ==
    LET nl == {i \in DOMAIN s : s[i] = "\n"}
    IN  IF nl = {} THEN s ELSE SubSeq(s, 1, Min(nl) - 1)

\* C6: why_matters is the first line of the narrative text, and "N/A" when
\* the narrative response is empty, as displayed and as stored.
C6_WhyMattersFirstLineOrNA ==
    pc \in {"explain", "render", "done"} =>
        LET expected == IF insight = <<>> THEN NotAvailable ELSE FirstLine(insight)
        IN  /\ why_matters = expected
            /\ pc = "done" =>
                 /\ <<"why", expected>> \in Range(shown)
                 /\ Field(LastRecord, K_why_matters) = PyStr(expected)

\* C7: the prompt of every remote call of a run holds the whole article
\* text as a contiguous substring.
C7_EveryPromptHoldsArticle ==
    \A i \in DOMAIN calls : Contains(calls[i].prompt, article_text)

SentimentLabels == { <<"P","o","s","i","t","i","v","e">>, <<"N","e","g","a","t","i","v","e">>, <<"N","e","u","t","r","a","l">> }

\* C8: the sentiment field of every record of the store is one of the three
\* labels or the error placeholder.
C8_StoredSentimentIsLabel ==
    LET r == load_insights(file)
    IN  \A i \in DOMAIN r.val.v :
            Field(r.val.v[i], K_sentiment).v \in SentimentLabels \cup {SentimentError}

CallOrder == <<"sentiment", "research", "tag", "insight", "explain">>

\* C10: the remote calls of a run are, in this order and each at most once,
\* sentiment, research, tag, narrative, explanation; the narrative prompt is
\* built from what the research call returned and the explanation prompt
\* from what the narrative call returned; save_insight is called at most
\* once and only after the explanation call returned; with an empty article
\* there is no remote call and no write.
C10_CallsInOrder ==
    /\ Len(calls) <= Len(CallOrder)
    /\ \A i \in DOMAIN calls : calls[i].kind = CallOrder[i]
    /\ \A i \in DOMAIN calls : i < Len(calls) /\ i > 1 => calls[i].ok
    /\ Len(calls) >= 4 => calls[4].prompt = generate_prompt(article_text, calls[2].result)
    /\ Len(calls) >= 5 => calls[5].prompt = generate_explanation_prompt(calls[4].result)
    /\ saves <= 1
    /\ saves = 1 => (Len(calls) = 5 /\ calls[5].ok)
    /\ file # fileAtStart => saves = 1
    /\ article_text = <<>> => (calls = <<>> /\ saves = 0 /\ file = fileAtStart)

\* a full generation: five calls, then the one save
C10_Witness ==
    /\ pc = "done"
    /\ Len(calls) = 5
    /\ saves = 1
    /\ calls[2].result # <<>> /\ calls[4].result # <<>>

=============================================================================
